---- MODULE Spec2Model ----
(***************************************************************************)
(* A model of src/main.rs: main() parses two positional arguments, spawns  *)
(* one thread per index in 0..num_threads, and every thread loops forever  *)
(* over create_script (open+truncate, fstat, fchmod 0700, write, close)    *)
(* and execute_script (clone the process, execve the script in the child,  *)
(* wait for it).  The kernel side that the module documentation describes  *)
(* is modelled too: a cloned child holds a copy of every descriptor the    *)
(* process has open at the moment of the clone, the copies are closed at   *)
(* the child's execve (O_CLOEXEC), and execve of a file that anyone holds  *)
(* open for writing fails with ETXTBSY.                                    *)
(***************************************************************************)
EXTENDS Integers, Sequences, FiniteSets

\* ------------------------------------------------------------------ bounds
\* Largest thread count the second argument may denote.
MaxThreads == 3
\* Longest second argument, in characters.
MaxArgLen == 2

\* ------------------------------------------------------ program constants
\* permissions.set_mode(0o700)
Mode700 == 448
\* File::create opens with mode 0o666, cut by the usual umask 0o022
CreateMode == 420
\* the owner-execute bit, 0o100
OwnerExecBit == 64
\* std::process::exit(1)
ExitFailure == 1
\* main returning Ok(())
ExitSuccess == 0

\* file.write_all(b"#!/bin/bash")
Body == <<"#", "!", "/", "b", "i", "n", "/", "b", "a", "s", "h">>
\* the interpreter the machine has
BinBash == <<"/", "b", "i", "n", "/", "b", "a", "s", "h">>

UsageMsg == "Expected arguments: {temporary directory} {num threads}"
ParseMsg == "Error: Invalid num-threads"

\* ----------------------------------------------------------------- strings
DigitChars == <<"0", "1", "2", "3", "4", "5", "6", "7", "8", "9">>
IsDigit(c) == \E d \in 1..Len(DigitChars) : DigitChars[d] = c
DigitVal(c) == (CHOOSE d \in 1..Len(DigitChars) : DigitChars[d] = c) - 1

I32Max == 2147483647

RECURSIVE DigitsValue(_)
\* the value of a string of decimal digits, most significant first
DigitsValue(s) ==
    IF s = <<>> THEN 0
    ELSE 10 * DigitsValue(SubSeq(s, 1, Len(s) - 1)) + DigitVal(s[Len(s)])

\* str::parse::<i32>(): an optional sign, then one or more decimal digits,
\* the value within the range of i32.
ParseI32(s) ==
    LET signed == Len(s) > 0 /\ s[1] \in {"+", "-"}
        digits == IF signed THEN SubSeq(s, 2, Len(s)) ELSE s
        mag    == DigitsValue(digits)
        val    == IF signed /\ s[1] = "-" THEN 0 - mag ELSE mag
    IN  IF digits = <<>> \/ \E k \in 1..Len(digits) : ~IsDigit(digits[k])
          THEN [ok |-> FALSE, val |-> 0]
        ELSE IF val > I32Max \/ val < 0 - I32Max - 1
          THEN [ok |-> FALSE, val |-> 0]
        ELSE [ok |-> TRUE, val |-> val]

\* only the parity of the number is formatted
ToStringParity(n) == <<DigitChars[(n % 2) + 1]>>

RECURSIVE ToString(_)
\* i32::to_string() of a non-negative number: its decimal digits
ToString(n) ==
    IF n < 10 THEN <<DigitChars[n + 1]>>
    ELSE ToString(n \div 10) \o <<DigitChars[(n % 10) + 1]>>

\* Path::join: an absolute right side replaces the left one; otherwise a
\* separator is added unless the left side is empty or already ends in one.
Join(base, name) ==
    IF name # <<>> /\ name[1] = "/" THEN name
    ELSE IF base = <<>> \/ base[Len(base)] = "/" THEN base \o name
    ELSE base \o <<"/">> \o name

\* ------------------------------------------------------------------ inputs
BasePaths == {<<>>, <<"t">>, <<"t", "/">>}
NumChars == {DigitChars[d + 1] : d \in 0..MaxThreads} \cup {"-", "+", "x"}
AllNumStrings == UNION {[1..n -> NumChars] : n \in 0..MaxArgLen}
NumStrings ==
    {s \in AllNumStrings : ~ParseI32(s).ok \/ ParseI32(s).val <= MaxThreads}
Argvs ==
    {<<>>} \cup {<<b>> : b \in BasePaths}
           \cup {<<b, n>> : b \in BasePaths, n \in NumStrings}

Workers == 0..(MaxThreads - 1)
NoError == [fn |-> "", errno |-> "", msg |-> ""]

VARIABLES
    argv,        \* std::env::args() after the program name, not yet consumed
    mainPc,      \* where main() is
    base_path,   \* main's base_path
    num_threads, \* main's num_threads
    i,           \* the loop variable of main's for loop
    script_path, \* script_path[w]: the path thread w was given
    pc,          \* pc[w]: where thread w is
    err,         \* err[w]: the error create_and_execute_script returned
    openFds,     \* paths the process holds open for writing
    child,       \* child[w]: the subprocess thread w spawned
    childFds,    \* childFds[w]: descriptors the child inherited, still open
    files,       \* the directory: path -> [content, mode]
    dirExists,   \* the base directory is there
    stderr,      \* lines on the error stream
    exited,      \* the process has terminated
    exitCode     \* its status, once exited

vars == <<argv, mainPc, base_path, num_threads, i, script_path, pc, err,
          openFds, child, childFds, files, dirExists, stderr, exited, exitCode>>

mainVars == <<argv, mainPc, base_path, num_threads, i>>
kernelVars == <<openFds, child, childFds, files, dirExists>>

Init ==
    /\ argv \in Argvs
    /\ mainPc = "args"
    /\ base_path = <<>>
    /\ num_threads = 0
    /\ i = 0
    /\ script_path = [w \in Workers |-> <<>>]
    /\ pc = [w \in Workers |-> "unspawned"]
    /\ err = [w \in Workers |-> NoError]
    /\ openFds = {}
    /\ child = [w \in Workers |-> "none"]
    /\ childFds = [w \in Workers |-> {}]
    /\ files = <<>>
    /\ dirExists = TRUE
    /\ stderr = <<>>
    /\ exited = FALSE
    /\ exitCode = 0

\* std::process::exit(code), or main returning: the process is gone, its
\* threads stop and the kernel closes its descriptors.
ProcessExit(code) ==
    /\ exited' = TRUE
    /\ exitCode' = code
    /\ openFds' = {}

\* -------------------------------------------------------------------- main
\* the usage line followed by a successful exit
UsageExitZero == ProcessExit(ExitSuccess)

\* std::process::exit(1) after the usage line
UsageExit == ProcessExit(ExitFailure)

\* let (Some(base_path), Some(num_threads)) = (args.next(), args.next())
\* else { eprintln!(usage); exit(1) }
MainArgs ==
    /\ ~exited /\ mainPc = "args"
    /\ IF Len(argv) >= 2
         THEN /\ base_path' = argv[1]
              /\ argv' = SubSeq(argv, 2, Len(argv))
              /\ mainPc' = "parse"
              /\ UNCHANGED <<stderr, exited, exitCode, openFds>>
         ELSE /\ stderr' = Append(stderr, [path |-> <<>>, text |-> UsageMsg])
              /\ UsageExit
              /\ argv' = <<>>
              /\ mainPc' = "usage_exit"
              /\ UNCHANGED base_path
    /\ UNCHANGED <<num_threads, i, script_path, pc, err, child, childFds,
                   files, dirExists>>

\* let num_threads = num_threads.parse().context("Invalid num-threads")?;
\* an Err returned from main is printed and the status is 1.
MainParse ==
    /\ ~exited /\ mainPc = "parse"
    /\ LET r == ParseI32(argv[1])
       IN  IF r.ok
             THEN /\ num_threads' = r.val
                  /\ i' = 0
                  /\ mainPc' = "spawn"
                  /\ UNCHANGED <<stderr, exited, exitCode, openFds>>
             ELSE /\ stderr' = Append(stderr, [path |-> <<>>, text |-> ParseMsg])
                  /\ ProcessExit(ExitFailure)
                  /\ mainPc' = "parse_error"
                  /\ UNCHANGED <<num_threads, i>>
    /\ argv' = <<>>
    /\ UNCHANGED <<base_path, script_path, pc, err, child, childFds, files,
                   dirExists>>

\* the index shifted by one
ThreadPathOffByOne(base, k) == Join(base, ToString(k + 1))

\* every thread given the same path
ThreadPathShared(base, k) == Join(base, ToString(0))

\* let script_path = base_path.join(i.to_string());
ThreadPath(base, k) == Join(base, ToString(k))

\* for i in 0..num_threads { let script_path = base_path.join(i.to_string());
\*                           scope.spawn(...) }
MainSpawn ==
    /\ ~exited /\ mainPc = "spawn"
    /\ IF i < num_threads
         THEN /\ script_path' = [script_path EXCEPT ![i] = ThreadPath(base_path, i)]
              /\ pc' = [pc EXCEPT ![i] = "create"]
              /\ i' = i + 1
              /\ UNCHANGED mainPc
         ELSE /\ mainPc' = "join"
              /\ UNCHANGED <<script_path, pc, i>>
    /\ UNCHANGED <<argv, base_path, num_threads, err, kernelVars, stderr,
                   exited, exitCode>>

\* The closure is `loop { ... }` with no break: a spawned thread never finishes.
ThreadFinished(w) == FALSE

\* thread::scope returns once every spawned thread has finished; then Ok(())
MainJoin ==
    /\ ~exited /\ mainPc = "join"
    /\ \A w \in Workers : pc[w] # "unspawned" => ThreadFinished(w)
    /\ mainPc' = "returned"
    /\ ProcessExit(ExitSuccess)
    /\ UNCHANGED <<argv, base_path, num_threads, i, script_path, pc, err,
                   child, childFds, files, dirExists, stderr>>

MainStep == MainArgs \/ MainParse \/ MainSpawn \/ MainJoin

\* ------------------------------------------------------------------ kernel
Exists(path) == path \in DOMAIN files

\* the file at path, created or replaced
Put(path, f) == [p \in DOMAIN files \cup {path} |-> IF p = path THEN f ELSE files[p]]

\* a single write(2) that stops one byte short
WriteAtShort(content, off, bytes) ==
    LET part == SubSeq(bytes, 1, Len(bytes) - 1)
        n    == IF Len(content) > off + Len(part) THEN Len(content) ELSE off + Len(part)
    IN  [k \in 1..n |-> IF k > off /\ k <= off + Len(part) THEN part[k - off]
                        ELSE IF k <= Len(content) THEN content[k] ELSE " "]

\* write(2) of bytes at offset off into a file holding content
WriteAt(content, off, bytes) ==
    LET n == IF Len(content) > off + Len(bytes) THEN Len(content) ELSE off + Len(bytes)
    IN  [k \in 1..n |-> IF k > off /\ k <= off + Len(bytes) THEN bytes[k - off]
                        ELSE IF k <= Len(content) THEN content[k] ELSE " "]

\* someone holds path open for writing: the process itself, or a cloned
\* child that still has its copy (it has not reached its execve yet)
HasWriter(path) ==
    \/ path \in openFds
    \/ \E c \in Workers : child[c] # "none" /\ path \in childFds[c]

OwnerMayExec(mode) == (mode \div OwnerExecBit) % 2 = 1
IsScript(content) == Len(content) >= 2 /\ content[1] = "#" /\ content[2] = "!"
Interpreter(content) == SubSeq(content, 3, Len(content))

\* execve(path): the errno, or "" when the new program starts
ExecErrno(path) ==
    IF ~dirExists \/ ~Exists(path) THEN "ENOENT"
    ELSE IF ~OwnerMayExec(files[path].mode) THEN "EACCES"
    ELSE IF HasWriter(path) THEN "ETXTBSY"
    ELSE IF ~IsScript(files[path].content) THEN "ENOEXEC"
    ELSE IF Interpreter(files[path].content) # BinBash THEN "ENOENT"
    ELSE ""

\* io::Error's Display
ErrnoMsg(e) ==
    CASE e = "ENOENT" -> "No such file or directory (os error 2)"
      [] e = "EACCES" -> "Permission denied (os error 13)"
      [] e = "ETXTBSY" -> "Text file busy (os error 26)"
      [] e = "ENOEXEC" -> "Exec format error (os error 8)"
      [] OTHER -> ""

\* ----------------------------------------------------------------- workers
\* threads that outlive the process's exit
RunsAfterExit(w) == w \in Workers

\* The thread runs only while the process lives.
Runs(w) == ~exited /\ w \in Workers

\* a directory that is made again whenever it is missing
CanCreateAlways(path) == TRUE

\* open(2) with O_CREAT needs the parent directory of path
CanCreate(path) == dirExists

\* every open giving the file the mode of a new one
OpenModeReset(path) == CreateMode

\* the mode after open(2): O_TRUNC keeps the mode of a file that is there,
\* O_CREAT gives a new one 0o666 less the umask
OpenMode(path) == IF Exists(path) THEN files[path].mode ELSE CreateMode

\* File::create(script_path).context("File creation failed")?
\* open(O_WRONLY | O_CREAT | O_TRUNC | O_CLOEXEC, 0o666)
FileCreate(w) ==
    /\ Runs(w) /\ pc[w] = "create"
    /\ LET path == script_path[w]
       IN  IF CanCreate(path)
             THEN /\ files' = Put(path, [content |-> <<>>, mode |-> OpenMode(path)])
                  /\ openFds' = openFds \cup {path}
                  /\ pc' = [pc EXCEPT ![w] = "metadata"]
                  /\ UNCHANGED err
             ELSE /\ err' = [err EXCEPT ![w] = [fn |-> "create_script", errno |-> "ENOENT",
                                                msg |-> "File creation failed"]]
                  /\ pc' = [pc EXCEPT ![w] = "report"]
                  /\ UNCHANGED <<files, openFds>>
    /\ UNCHANGED <<mainVars, script_path, child, childFds, dirExists, stderr,
                   exited, exitCode>>

\* file.metadata().context("Failed to get file metadata")?.permissions()
\* fstat on the open descriptor; the mode read is replaced whole by set_mode.
Metadata(w) ==
    /\ Runs(w) /\ pc[w] = "metadata"
    /\ pc' = [pc EXCEPT ![w] = "set_permissions"]
    /\ UNCHANGED <<mainVars, script_path, err, kernelVars, stderr, exited, exitCode>>

\* permissions.set_mode(0o700); file.set_permissions(permissions)
\* fchmod on the open descriptor; an unlinked file is changed out of sight.
SetPermissions(w) ==
    /\ Runs(w) /\ pc[w] = "set_permissions"
    /\ LET path == script_path[w]
       IN  files' = IF Exists(path)
                      THEN Put(path, [files[path] EXCEPT !.mode = Mode700])
                      ELSE files
    /\ pc' = [pc EXCEPT ![w] = "write"]
    /\ UNCHANGED <<mainVars, script_path, err, openFds, child, childFds,
                   dirExists, stderr, exited, exitCode>>

\* file.write_all(b"#!/bin/bash"), the descriptor's offset being 0
WriteAll(w) ==
    /\ Runs(w) /\ pc[w] = "write"
    /\ LET path == script_path[w]
       IN  files' = IF Exists(path)
                      THEN Put(path, [files[path] EXCEPT
                                        !.content = WriteAt(files[path].content, 0, Body)])
                      ELSE files
    /\ pc' = [pc EXCEPT ![w] = "drop"]
    /\ UNCHANGED <<mainVars, script_path, err, openFds, child, childFds,
                   dirExists, stderr, exited, exitCode>>

\* create_script returning with the descriptor still open
DropFileLeak(w) ==
    /\ Runs(w) /\ pc[w] = "drop"
    /\ pc' = [pc EXCEPT ![w] = "spawn"]
    /\ UNCHANGED <<mainVars, script_path, err, kernelVars, stderr, exited, exitCode>>

\* create_script returns Ok(()): `file` goes out of scope and is closed
DropFile(w) ==
    /\ Runs(w) /\ pc[w] = "drop"
    /\ openFds' = openFds \ {script_path[w]}
    /\ pc' = [pc EXCEPT ![w] = "spawn"]
    /\ UNCHANGED <<mainVars, script_path, err, child, childFds, files,
                   dirExists, stderr, exited, exitCode>>

\* a child that is also handed its own script, open for writing
InheritedPlusOwn(w) == openFds \cup {script_path[w]}

\* the descriptors a newly cloned child of w starts with
Inherited(w) == openFds

\* Command::new(script_path).status(): the child is cloned with a copy of
\* every descriptor the process has open; the calling thread alone is
\* suspended until the child has called execve.
Clone(w) ==
    /\ Runs(w) /\ pc[w] = "spawn"
    /\ child' = [child EXCEPT ![w] = "preexec"]
    /\ childFds' = [childFds EXCEPT ![w] = Inherited(w)]
    /\ pc' = [pc EXCEPT ![w] = "cloned"]
    /\ UNCHANGED <<mainVars, script_path, err, openFds, files, dirExists,
                   stderr, exited, exitCode>>

\* descriptors without O_CLOEXEC, which survive the execve
AfterExecKeepsFds(w) == childFds[w]

\* what is left of the child's inherited descriptors after a successful execve
AfterExecFds(w) == {}

\* The child's execve(script_path).  On success the close-on-exec copies are
\* closed and the suspended thread goes on to wait; on failure the child
\* exits and status() returns the error through `?`.  A child whose parent
\* has exited still makes the call, and nobody hears of the outcome.
ChildExec(w) ==
    /\ w \in Workers /\ child[w] = "preexec"
    /\ LET e == ExecErrno(script_path[w])
       IN  /\ child' = [child EXCEPT ![w] = IF e = "" THEN "running" ELSE "none"]
           /\ childFds' = [childFds EXCEPT ![w] = IF e = "" THEN AfterExecFds(w) ELSE {}]
           /\ IF exited
                THEN UNCHANGED <<pc, err>>
                ELSE IF e = ""
                  THEN /\ pc' = [pc EXCEPT ![w] = "wait"]
                       /\ UNCHANGED err
                  ELSE /\ pc' = [pc EXCEPT ![w] = "report"]
                       /\ err' = [err EXCEPT ![w] = [fn |-> "execute_script", errno |-> e,
                                                     msg |-> ErrnoMsg(e)]]
    /\ UNCHANGED <<mainVars, script_path, openFds, files, dirExists, stderr,
                   exited, exitCode>>

\* exit statuses a script may end with
ExitStatuses == {0, 1}

\* the running script ends, with whatever status
ChildExit(w) ==
    /\ w \in Workers /\ child[w] = "running"
    /\ \E s \in ExitStatuses : child' = [child EXCEPT ![w] = IF s = 0 THEN "zombie0" ELSE "zombie1"]
    /\ UNCHANGED <<mainVars, script_path, pc, err, openFds, childFds, files,
                   dirExists, stderr, exited, exitCode>>

ChildEnded(w) == child[w] \in {"zombie0", "zombie1"}

\* a wait that returns only when no child of the process is running
WaitForAll(w) ==
    /\ Runs(w) /\ pc[w] = "wait"
    /\ \A v \in Workers : child[v] \in {"none", "zombie0", "zombie1"}
    /\ child' = [child EXCEPT ![w] = "none"]
    /\ pc' = [pc EXCEPT ![w] = "create"]
    /\ UNCHANGED <<mainVars, script_path, err, openFds, childFds, files,
                   dirExists, stderr, exited, exitCode>>

\* spawn() in place of status(): the loop starts over with the child running
WaitNoBlock(w) ==
    /\ Runs(w) /\ pc[w] = "wait"
    /\ pc' = [pc EXCEPT ![w] = "create"]
    /\ UNCHANGED <<mainVars, script_path, err, kernelVars, stderr, exited, exitCode>>

\* a non-zero exit status of the script taken for an error
WaitChecked(w) ==
    /\ Runs(w) /\ pc[w] = "wait" /\ child[w] \in {"zombie0", "zombie1"}
    /\ IF child[w] = "zombie0"
         THEN /\ pc' = [pc EXCEPT ![w] = "create"]
              /\ UNCHANGED err
         ELSE /\ pc' = [pc EXCEPT ![w] = "report"]
              /\ err' = [err EXCEPT ![w] = [fn |-> "execute_script", errno |-> "",
                                            msg |-> "exit status: 1"]]
    /\ child' = [child EXCEPT ![w] = "none"]
    /\ UNCHANGED <<mainVars, script_path, openFds, childFds, files,
                   dirExists, stderr, exited, exitCode>>

\* status() returns Ok(ExitStatus), which execute_script drops; the loop
\* starts over
Wait(w) ==
    /\ Runs(w) /\ pc[w] = "wait" /\ ChildEnded(w)
    /\ child' = [child EXCEPT ![w] = "none"]
    /\ pc' = [pc EXCEPT ![w] = "create"]
    /\ UNCHANGED <<mainVars, script_path, err, openFds, childFds, files,
                   dirExists, stderr, exited, exitCode>>

\* the error logged and the loop carried on
ReportAndContinue(w) ==
    /\ Runs(w) /\ pc[w] = "report"
    /\ stderr' = Append(stderr, [path |-> script_path[w], text |-> err[w].msg])
    /\ pc' = [pc EXCEPT ![w] = "create"]
    /\ UNCHANGED <<mainVars, script_path, err, kernelVars, exited, exitCode>>

\* eprintln!("{}: {error}", script_path.display())
Report(w) ==
    /\ Runs(w) /\ pc[w] = "report"
    /\ stderr' = Append(stderr, [path |-> script_path[w], text |-> err[w].msg])
    /\ pc' = [pc EXCEPT ![w] = "exit"]
    /\ UNCHANGED <<mainVars, script_path, err, kernelVars, exited, exitCode>>

\* the failing thread alone ends
ExitThreadOnly(w) ==
    /\ Runs(w) /\ pc[w] = "exit"
    /\ pc' = [pc EXCEPT ![w] = "finished"]
    /\ UNCHANGED <<mainVars, script_path, err, kernelVars, stderr, exited, exitCode>>

\* std::process::exit(1)
Exit(w) ==
    /\ Runs(w) /\ pc[w] = "exit"
    /\ ProcessExit(ExitFailure)
    /\ UNCHANGED <<mainVars, script_path, pc, err, child, childFds, files,
                   dirExists, stderr>>

\* create_script, one system call at a time
CreateScript(w) ==
    FileCreate(w) \/ Metadata(w) \/ SetPermissions(w) \/ WriteAll(w) \/ DropFile(w)

WorkerStep(w) == CreateScript(w) \/ Clone(w) \/ Wait(w) \/ Report(w) \/ Exit(w)
ChildStep(w) == ChildExec(w) \/ ChildExit(w)

\* ------------------------------------------------------------- environment
\* Someone removes the base directory, and the scripts in it, mid-run.
RemoveDir ==
    /\ ~exited /\ dirExists
    /\ dirExists' = FALSE
    /\ files' = <<>>
    /\ UNCHANGED <<mainVars, script_path, pc, err, openFds, child, childFds,
                   stderr, exited, exitCode>>

Next ==
    \/ MainStep
    \/ \E w \in Workers : WorkerStep(w)
    \/ \E w \in Workers : ChildStep(w)
    \/ RemoveDir

Spec == Init /\ [][Next]_vars

\* Threads and children that can take a step are scheduled; nothing obliges
\* anyone to remove the directory.
FairSpec ==
    /\ Spec
    /\ WF_vars(MainStep)
    /\ \A w \in Workers : WF_vars(WorkerStep(w)) /\ WF_vars(ChildStep(w))

\* ================================================================== claims
Spawned(w) == pc[w] # "unspawned"
Busy(w) == err[w].fn = "execute_script" /\ err[w].errno = "ETXTBSY"

\* C1: with one worker, the worker's execute step never fails with
\* ETXTBSY, in any reachable state.
C1_SingleWorkerNeverBusy ==
    num_threads = 1 => \A w \in Workers : ~Busy(w)

\* the lone worker has executed its script and is back writing it, the file
\* of the earlier iteration (mode 0700) freshly truncated
C1_Witness ==
    /\ num_threads = 1 /\ mainPc = "join"
    /\ pc[0] = "metadata"
    /\ Exists(script_path[0]) /\ files[script_path[0]].mode = Mode700

\* C2: a worker's execute step can fail with ETXTBSY when there are two
\* workers or more (the witness), and when it does the workers' paths are
\* pairwise distinct and the process itself does not hold the failing
\* worker's file open: nobody but its owner ever opened it.
C2_BusyDespiteDisjointFiles ==
    \A w \in Workers :
        Busy(w) =>
            /\ num_threads >= 2
            /\ \A a, b \in Workers :
                   (Spawned(a) /\ Spawned(b) /\ a # b) => script_path[a] # script_path[b]
            /\ script_path[w] \notin openFds

\* two workers, one of them failed with ETXTBSY
C2_Witness ==
    /\ num_threads = 2
    /\ \E w \in Workers : Busy(w) /\ pc[w] = "report"

\* a line reporting ETXTBSY is on the error stream
BusyReported ==
    \E k \in 1..Len(stderr) :
        stderr[k].path # <<>> /\ stderr[k].text = "Text file busy (os error 26)"

\* C3 as stated: with two workers or more every run comes to a busy report
\* (unless someone removes the directory first), and the report is followed
\* by the process exiting with status 1.
C3_EveryRunReportsBusy ==
    /\ (num_threads >= 2) ~> (BusyReported \/ ~dirExists)
    /\ BusyReported ~> (exited /\ exitCode = 1)

\* C3, amended: a busy report need not come, but once a worker has reported
\* ETXTBSY the whole process exits, with status 1.
C3_BusyReportExits ==
    BusyReported ~> (exited /\ exitCode = 1)

\* two workers or more, the busy failure reported and the process gone
C3_Witness ==
    num_threads >= 2 /\ BusyReported /\ exited /\ exitCode = 1

\* C4: once a worker's create or execute step has returned an error the
\* process exits with status 1, and from that exit on no thread takes a
\* step: no file is written, no descriptor opened or closed, nothing
\* printed, the siblings stay wherever they were.
C4_FatalErrorEndsProcess ==
    /\ (\E w \in Workers : err[w] # NoError) ~> (exited /\ exitCode = 1)
    /\ [][exited => /\ exited' /\ exitCode' = exitCode
                    /\ pc' = pc /\ err' = err /\ files' = files
                    /\ openFds' = openFds /\ stderr' = stderr]_vars

\* the process has exited on one worker's error while a sibling was in the
\* middle of its iteration
C4_Witness ==
    /\ exited /\ exitCode = 1
    /\ \E w, v \in Workers :
          /\ w # v /\ err[w] # NoError /\ pc[w] = "exit"
          /\ pc[v] \in {"metadata", "set_permissions", "write", "drop", "cloned", "wait"}

\* C5 as stated (reading any line on the error stream as the usage
\* message): a non-numeric second argument, or a worker count of 0, ends
\* the process with status 1 and a message, no worker started, no file
\* created.
C5_ZeroOrMalformedCountRejected ==
    (mainPc = "parse_error" \/ (mainPc = "returned" /\ num_threads = 0)) =>
        /\ exited /\ exitCode = 1
        /\ stderr # <<>>
        /\ DOMAIN files = {}
        /\ \A w \in Workers : ~Spawned(w)

\* C6: with fewer than two positional arguments the process prints the
\* usage line, and only it, and exits with status 1; no worker has been
\* spawned and no file created.
C6_MissingArgsUsage ==
    /\ [][(mainPc = "args" /\ Len(argv) < 2 /\ mainPc' # mainPc)
              => mainPc' = "usage_exit"]_vars
    /\ [](mainPc = "usage_exit" =>
            /\ exited /\ exitCode = 1
            /\ Len(stderr) = 1 /\ stderr[1].path = <<>>
            /\ stderr[1].text = "Expected arguments: {temporary directory} {num threads}"
            /\ DOMAIN files = {}
            /\ \A w \in Workers : ~Spawned(w))

\* the process has ended on the usage line
C6_Witness ==
    mainPc = "usage_exit" /\ exited /\ Len(stderr) = 1

\* C7 as stated: whenever the process has exited by itself, its status is 1.
C7_NeverExitsZero ==
    exited => exitCode = 1

\* the decimal name of worker k, for k below ten
C8_Name(k) == <<DigitChars[k + 1]>>
\* base_directory/name
C8_InDir(base, name) ==
    IF base = <<>> \/ base[Len(base)] = "/" THEN base \o name
    ELSE base \o <<"/">> \o name
C8_Expected == {C8_InDir(base_path, C8_Name(k)) : k \in 0..(num_threads - 1)}

\* C8 as stated: only the files 0 .. N-1 of the base directory are ever
\* created, and each of them is created during the run (unless someone
\* removes the directory).
C8_ExactlyNFiles ==
    /\ [](DOMAIN files \subseteq C8_Expected)
    /\ \A k \in Workers :
          (mainPc \in {"spawn", "join"} /\ k < num_threads)
              ~> (Exists(C8_InDir(base_path, C8_Name(k))) \/ ~dirExists)

\* C8, amended: no file other than base_directory/0 .. base_directory/(N-1)
\* is ever created, so at most N files exist.
C8_OnlyExpectedFiles ==
    /\ DOMAIN files \subseteq C8_Expected
    /\ Cardinality(DOMAIN files) <= IF num_threads > 0 THEN num_threads ELSE 0

\* all N files of a run with N >= 2 are there
C8_Witness ==
    num_threads >= 2 /\ Cardinality(DOMAIN files) = num_threads

C9_ExpectedBody == <<"#", "!", "/", "b", "i", "n", "/", "b", "a", "s", "h">>

\* C9: once a worker's write has succeeded, and so while it executes, its
\* script holds exactly "#!/bin/bash", whatever the other workers do.
C9_ContentIsBody ==
    \A w \in Workers :
        (pc[w] \in {"drop", "spawn", "cloned", "wait"} /\ Exists(script_path[w]))
            => files[script_path[w]].content = C9_ExpectedBody

\* one worker's child is about to execve the script while another worker
\* has its own file truncated and open
C9_Witness ==
    \E w, v \in Workers :
        /\ w # v /\ pc[w] = "cloned" /\ child[w] = "preexec"
        /\ Exists(script_path[w]) /\ files[script_path[w]].content = C9_ExpectedBody
        /\ pc[v] = "write" /\ Exists(script_path[v])
        /\ files[script_path[v]].content = <<>>

\* C10: any two different workers have different script paths, those handed
\* to the spawned threads as well as those of indices not yet spawned.
C10_PathsDistinct ==
    /\ \A a, b \in Workers :
          (a # b /\ Spawned(a) /\ Spawned(b)) => script_path[a] # script_path[b]
    /\ \A a, b \in 0..(num_threads - 1) :
          a # b => ThreadPath(base_path, a) # ThreadPath(base_path, b)

\* three threads spawned, each with its path
C10_Witness ==
    /\ num_threads >= 3
    /\ \A w \in 0..2 : Spawned(w) /\ script_path[w] # <<>>

\* C11: a step of worker w, or of its child, leaves every other worker's
\* file as it was (content and mode), opens or closes no descriptor but
\* w's own, and a thread's path never changes once it is spawned.
C11_OtherFilesUntouched ==
    [][\A w \in Workers :
          /\ Spawned(w) => script_path'[w] = script_path[w]
          /\ (WorkerStep(w) \/ ChildStep(w)) =>
                /\ \A v \in Workers :
                      (v # w /\ Spawned(v) /\ Exists(script_path[v])) =>
                          /\ script_path[v] \in DOMAIN files'
                          /\ files'[script_path[v]] = files[script_path[v]]
                /\ \A v \in Workers :
                      (v # w /\ Spawned(v) /\ ~exited') =>
                          (script_path[v] \in openFds' <=> script_path[v] \in openFds)]_vars

\* a worker is about to write its truncated file while a sibling's file
\* stands complete
C11_Witness ==
    \E w, v \in Workers :
        /\ w # v /\ pc[w] = "write"
        /\ Exists(script_path[w]) /\ files[script_path[w]].content = <<>>
        /\ Exists(script_path[v]) /\ files[script_path[v]].content = Body
        /\ files[script_path[v]].mode = Mode700

\* worker w gets an error in this step
C12_Fails(w) == err[w] = NoError /\ err'[w] # NoError

\* C12 as stated: once the base directory is gone, the next error a worker
\* gets is a script-creation failure, and it is reported with that worker's
\* exact path.
C12_NextErrorIsCreation ==
    [][~dirExists =>
          \A w \in Workers :
              /\ C12_Fails(w) => err'[w].fn = "create_script"
              /\ (pc[w] = "report" /\ pc'[w] = "exit") =>
                     stderr' = Append(stderr, [path |-> script_path[w],
                                               text |-> err[w].msg])]_vars

\* C12, amended: once the base directory is gone no worker completes
\* another create; the next error a worker gets is "no such file", from
\* File::create or, when the removal fell between its create and its
\* child's execve, from the execute step; it is reported with that worker's
\* exact path, and a process with a worker that exits, exits with status 1.
C12_RemovalFatalWithinIteration ==
    [][~dirExists =>
          /\ \A w \in Workers :
                /\ ~(pc[w] = "create" /\ pc'[w] = "metadata")
                /\ C12_Fails(w) =>
                      /\ err'[w].errno = "ENOENT"
                      /\ \/ err'[w].fn = "create_script" /\ pc[w] = "create"
                         \/ err'[w].fn = "execute_script" /\ pc[w] = "cloned"
                /\ (pc[w] = "report" /\ pc'[w] = "exit") =>
                       stderr' = Append(stderr, [path |-> script_path[w],
                                                 text |-> err[w].msg])
          /\ (~exited /\ exited' /\ \E v \in Workers : Spawned(v)) => exitCode' = 1]_vars

\* the directory was removed between a worker's create and its child's
\* execve: the worker has reported an execute failure and the process is gone
C12_Witness ==
    /\ ~dirExists /\ exited /\ exitCode = 1
    /\ \E w \in Workers :
          /\ pc[w] = "exit" /\ err[w].fn = "execute_script" /\ err[w].errno = "ENOENT"
          /\ stderr = <<[path |-> script_path[w],
                         text |-> "No such file or directory (os error 2)"]>>

\* C13: a worker's execute step fails with ETXTBSY only at a moment when the
\* process itself has the file closed and the child of a different worker,
\* cloned and not yet past its execve, holds an inherited copy of the
\* descriptor; a child's copies are all closed by the time it is past its
\* execve; and while a thread is suspended in its clone the other threads
\* can go on closing their files and cloning.
C13_BusyOnlyFromForeignChild ==
    /\ [][\A w \in Workers :
            /\ (~Busy(w) /\ Busy(w)') =>
                  /\ pc[w] = "cloned" /\ child[w] = "preexec"
                  /\ script_path[w] \notin openFds
                  /\ script_path[w] \notin childFds[w]
                  /\ \E c \in Workers :
                        /\ c # w /\ child[c] = "preexec" /\ pc[c] = "cloned"
                        /\ script_path[w] \in childFds[c]
            /\ (child[w] = "preexec" /\ child'[w] # "preexec") => childFds'[w] = {}]_vars
    /\ [](\A c, v \in Workers :
            (c # v /\ ~exited /\ pc[c] = "cloned" /\ child[c] = "preexec") =>
                /\ pc[v] = "drop" => ENABLED DropFile(v)
                /\ pc[v] = "spawn" => ENABLED Clone(v))
    /\ [](\A c \in Workers : child[c] # "preexec" => childFds[c] = {})

\* a worker has just failed with ETXTBSY while the child of another worker
\* still holds the copy of its descriptor
C13_Witness ==
    \E w, c \in Workers :
        /\ w # c /\ Busy(w) /\ pc[w] = "report"
        /\ child[c] = "preexec" /\ script_path[w] \in childFds[c]
        /\ script_path[w] \notin openFds

\* the order of a worker's steps
C14_Order ==
    {<<"unspawned", "create">>, <<"create", "metadata">>, <<"create", "report">>,
     <<"metadata", "set_permissions">>, <<"set_permissions", "write">>,
     <<"write", "drop">>, <<"drop", "spawn">>, <<"spawn", "cloned">>,
     <<"cloned", "wait">>, <<"cloned", "report">>, <<"wait", "create">>,
     <<"report", "exit">>}

\* C14: a worker's steps come in the one order create, metadata,
\* set_permissions, write, close, clone, wait, create, ...: the execute
\* step starts only after the create step has returned, and the next create
\* starts only after the subprocess has ended and been waited for, so no
\* child of the worker exists while it creates its script.
C14_StrictlySequential ==
    /\ [][\A w \in Workers :
            /\ pc'[w] # pc[w] => <<pc[w], pc'[w]>> \in C14_Order
            /\ (pc[w] = "wait" /\ pc'[w] = "create") =>
                   (child[w] \in {"zombie0", "zombie1"} /\ child'[w] = "none")
            /\ (child[w] = "none" /\ child'[w] # "none") =>
                   (pc[w] = "spawn" /\ pc'[w] = "cloned")]_vars
    /\ [](\A w \in Workers :
            pc[w] \in {"create", "metadata", "set_permissions", "write", "drop", "spawn"}
                => child[w] = "none")

\* a worker starts its second iteration: its script of the first one is
\* there, executed, and the child is gone
C14_Witness ==
    \E w \in Workers :
        /\ pc[w] = "create" /\ child[w] = "none" /\ ~exited
        /\ Exists(script_path[w]) /\ files[script_path[w]].content = Body

\* C15: a worker that got an error does nothing but report it and exit: it
\* is at its eprintln or at its exit call, the error stays, it never again
\* creates, writes or executes, and once the process has exited no thread
\* moves.
C15_NoRetry ==
    /\ [](\A w \in Workers : err[w] # NoError => pc[w] \in {"report", "exit"})
    /\ [][\A w \in Workers :
            /\ err[w] # NoError => err'[w] = err[w]
            /\ pc[w] = "report" => pc'[w] \in {"report", "exit"}
            /\ pc[w] = "exit" => pc'[w] = "exit"
            /\ exited => pc'[w] = pc[w]]_vars

\* one worker failed in its create step and another in its execute step
C15_Witness ==
    \E w, v \in Workers :
        /\ err[w].fn = "create_script" /\ pc[w] \in {"report", "exit"}
        /\ err[v].fn = "execute_script" /\ pc[v] \in {"report", "exit"}

\* C16: whatever status the script ends with, status() returns Ok and the
\* worker goes on to its next create with no error; an execute error arises
\* only from the child's execve failing, never from a child that ran.
C16_ExitStatusIgnored ==
    /\ [][\A w \in Workers :
            /\ (pc[w] = "wait" /\ pc'[w] # "wait") =>
                   (pc'[w] = "create" /\ err'[w] = NoError)
            /\ (err[w] = NoError /\ err'[w].fn = "execute_script") =>
                   (pc[w] = "cloned" /\ child[w] = "preexec")]_vars
    /\ [](\A w \in Workers :
            (~exited /\ pc[w] = "wait" /\ child[w] \in {"zombie0", "zombie1"})
                => ENABLED Wait(w))

\* a script has ended with a non-zero status and its worker is about to
\* return from status()
C16_Witness ==
    \E w \in Workers : ~exited /\ pc[w] = "wait" /\ child[w] = "zombie1"

\* the lines workers have printed
C17_WorkerLines == {k \in 1..Len(stderr) : stderr[k].path # <<>>}

\* C17 as stated: at most one worker line is ever on the error stream, and
\* it names the path of a worker that failed, with its error.
C17_SingleDiagnosticLine ==
    /\ Cardinality(C17_WorkerLines) <= 1
    /\ \A k \in C17_WorkerLines :
          \E w \in Workers :
              /\ Spawned(w) /\ err[w] # NoError
              /\ stderr[k] = [path |-> script_path[w], text |-> err[w].msg]

\* C18: from the moment a worker's file has mode 0700 it keeps it for as
\* long as the file is there, the truncating re-open of each later
\* iteration included; and the file has that mode from the first
\* set_permissions on.
C18_ModeStays0700 ==
    /\ [][\A w \in Workers :
            (Exists(script_path[w]) /\ files[script_path[w]].mode = 448
                 /\ script_path[w] \in DOMAIN files')
                => files'[script_path[w]].mode = 448]_vars
    /\ [](\A w \in Workers :
            (pc[w] \in {"write", "drop", "spawn", "cloned", "wait"}
                 /\ Exists(script_path[w]))
                => files[script_path[w]].mode = 448)

\* a later iteration has re-opened and truncated the file and has not yet
\* set its permissions: the mode is still 0700
C18_Witness ==
    \E w \in Workers :
        /\ pc[w] \in {"metadata", "set_permissions"}
        /\ Exists(script_path[w])
        /\ files[script_path[w]].content = <<>>
        /\ files[script_path[w]].mode = 448

\* C19: while a worker is in its execute step (about to clone, cloned, or
\* waiting) neither the process nor the worker's own child holds the
\* worker's script open for writing: whatever copy is open then is held by
\* the not-yet-exec'd child of another worker.
C19_NoOwnDescriptorAtExec ==
    \A w \in Workers :
        pc[w] \in {"spawn", "cloned", "wait"} =>
            /\ script_path[w] \notin openFds
            /\ script_path[w] \notin childFds[w]
            /\ HasWriter(script_path[w]) =>
                   \E c \in Workers :
                       c # w /\ child[c] = "preexec" /\ script_path[w] \in childFds[c]

\* a worker's child is about to execve the script while another worker's
\* child holds an inherited copy of its descriptor
C19_Witness ==
    \E w, c \in Workers :
        /\ w # c /\ pc[w] = "cloned" /\ child[w] = "preexec" /\ ~exited
        /\ child[c] = "preexec" /\ script_path[w] \in childFds[c]

\* some worker has got an error
C20_AnyError == \E v \in Workers : err[v] # NoError

\* C20: under fair scheduling, and for as long as no step returns an error,
\* every worker of the run is spawned, gets from wherever it is to the wait
\* of its execute step, and from there to its next create: iterations go
\* on for ever for each worker; and a process with workers that has not
\* exited always has a step to take.
C20_EveryWorkerProgresses ==
    /\ \A w \in Workers :
          /\ (mainPc \in {"spawn", "join"} /\ w < num_threads)
                 ~> (Spawned(w) \/ C20_AnyError)
          /\ (Spawned(w) /\ pc[w] # "wait") ~> (pc[w] = "wait" \/ C20_AnyError)
          /\ (pc[w] = "wait") ~> (pc[w] = "create" \/ C20_AnyError)
    /\ []((~exited /\ mainPc \in {"spawn", "join"} /\ num_threads > 0) => ENABLED Next)

\* three workers, no error anywhere, one of them starting a further
\* iteration while the others are in the middle of theirs
C20_Witness ==
    /\ num_threads = 3 /\ mainPc = "join" /\ ~C20_AnyError
    /\ \E w \in Workers :
          /\ pc[w] = "create" /\ Exists(script_path[w])
          /\ files[script_path[w]].content = Body
          /\ \A v \in Workers \ {w} : pc[v] \in {"cloned", "wait"}
====
